---- MODULE Spec2Model ----
(***************************************************************************)
(* analyze_powerpoint of ppt-to-txt, in its two versions:                  *)
(*   "main"                 src/main.py                 (no slide snapshot)*)
(*   "powerpoint_analyzer"  src/powerpoint_analyzer.py  (with snapshot)    *)
(* One run of analyze_powerpoint is one behaviour.  pc is the position of  *)
(* the run in the function body; the service (genai) is the environment.   *)
(***************************************************************************)
EXTENDS Integers, Sequences, FiniteSets, TLC

\* Bounds of the model: slides of the deck, pictures on one slide.
MaxSlides == 3
MaxPics == 2

VARIABLES
  variant,         \* which of the two source files is running
  prs,             \* the deck: prs[s] = number of picture shapes of slide s
  combine_images,  \* parameter combine_images
  add_labels,      \* parameter add_labels
  pc,              \* position in analyze_powerpoint
  i,               \* loop variable of the slide loop (0-based)
  idx,             \* loop variable of the image loop (0-based)
  heap,            \* the PIL Image objects alive in this iteration: ref -> pixels
  images1,         \* images1: refs of the extracted images, in shape order
  snapshot1,       \* snapshot1: ref of the extracted snapshot (0: none)
  tmp,             \* the object img.copy() / snapshot.copy() / combined_img just made
  id_text,         \* id_text / snapshot_id of the unit being handled
  processed_imgs,  \* processed_imgs: refs
  ai_files,        \* ai_files: handles
  disk,            \* files the run has written and not removed
  uploaded,        \* number of files the service has accepted (names the handles)
  wi,              \* position of wait_for_files_active in files (1-based)
  svc,             \* the service's state of the file being waited for
  file,            \* file.state.name as last fetched by genai.get_file
  result,          \* result
  results,         \* results
  output,          \* the output file
  error,           \* the exception that left analyze_powerpoint, or "none"
  calls            \* history: the calls made on ai_model and the appends, in order

vars == <<variant, prs, combine_images, add_labels, pc, i, idx, heap, images1,
          snapshot1, tmp, id_text, processed_imgs, ai_files, disk, uploaded,
          wi, svc, file, result, results, output, error, calls>>

params == <<variant, prs, combine_images, add_labels>>

Variants == {"main", "powerpoint_analyzer"}
FileStates == {"PROCESSING", "ACTIVE", "FAILED"}

\* The decks of at most MaxSlides slides with at most MaxPics pictures each.
Decks == UNION {[1..k -> 0..MaxPics] : k \in 0..MaxSlides}

----------------------------------------------------------------------------
\* Pure helpers

\* An image as extracted from a picture shape / rendered as snapshot.
Pixels(kind, slide, ord) ==
  [kind |-> kind, slide |-> slide, ord |-> ord, tags |-> <<>>, parts |-> <<>>]

\* extract_slide_content: one Image per picture shape, in shape order, and
\* (powerpoint_analyzer only) the snapshot of the slide.
ExtractedHeap(v, slide, n) ==
  [k \in 1..n |-> Pixels("image", slide, k)]
    \o (IF v = "powerpoint_analyzer" THEN <<Pixels("snapshot", slide, 0)>> ELSE <<>>)

\* Image.copy(): a new object with the same pixels.
\* (MutCopyAlias: the call without .copy(), the same object again.)
MutCopyAlias(h, r) == [heap |-> h, ref |-> r]
ImageCopy(h, r) == [heap |-> Append(h, h[r]), ref |-> Len(h) + 1]

\* add_id_to_image(img, id_text): draws on img itself and returns img.
add_id_to_image(h, r, text) ==
  IF ~add_labels
    THEN [heap |-> h, ref |-> r]
    ELSE [heap |-> [h EXCEPT ![r].tags = Append(@, text)], ref |-> r]

\* f"IMG_{i+1}_{idx+1}" and f"snapshot_{i+idx+1}" (idx = 0: enumerate([snapshot1])).
\* The fields of the string, "_"-separated, are the elements of the tuple.
\* (MutIdTextNoOrdinal: the identifier without the ordinal of the image.)
MutIdTextNoOrdinal(slide_i, img_idx) == <<"IMG", slide_i + 1, 1>>
IdText(slide_i, img_idx) == <<"IMG", slide_i + 1, img_idx + 1>>
SnapshotId(slide_i, snap_idx) == <<"snapshot", slide_i + snap_idx + 1>>

\* The temporary files' names.
ImgPath(slide_i, img_idx) == <<"temp_image", slide_i + 1, img_idx + 1>>
SnapshotPath(snapshot_id) == snapshot_id
CombinedPath(slide_i) == <<"combined_image", slide_i>>

\* img.save(path) and os.remove(path).
Save(d, path, content) ==
  {f \in d : f.path # path} \cup {[path |-> path, content |-> content]}
Remove(d, path) == {f \in d : f.path # path}
FileAt(d, path) == CHOOSE f \in d : f.path = path

\* genai.upload_file: the handle of the k-th file the service accepted.
Handle(k, content) == [name |-> k, unit |-> content]

\* The composite: the labeled images left to right.
Composite(h, refs, slide) ==
  [kind |-> "composite", slide |-> slide, ord |-> 0, tags |-> <<>>,
   parts |-> [k \in 1..Len(refs) |-> h[refs[k]]]]

\* s[-2:]
LastTwo(s) == SubSeq(s, IF Len(s) > 2 THEN Len(s) - 1 ELSE 1, Len(s))

\* ai_files after the composite is uploaded.
CombinedFiles(v, h, files) ==
  IF v = "main" THEN <<h>> ELSE <<h>> \o LastTwo(files)

\* range(len(prs.slides) - 1) in main, range(2) in powerpoint_analyzer.
RangeStop(v, deck) == IF v = "main" THEN Len(deck) - 1 ELSE 2

\* Where the run goes after the image block.
AfterImages(v, hasImages) ==
  IF v = "main"
    THEN (IF hasImages /\ combine_images THEN "combine" ELSE "wait_call")
    ELSE "snap_copy"

\* wait_for_files_active: the loop over files is over.
\* (MutWaitDoneEarly: a loop that leaves the last file unchecked.)
MutWaitDoneEarly(k, files) == k >= Len(files)
WaitDone(k, files) == k > Len(files)

\* wait_for_files_active: what a fetched state that is not PROCESSING leads to.
\* (MutWaitOutcomeIgnore: a check that does not raise.)
MutWaitOutcomeIgnore(st) == "next"
WaitOutcome(st) == IF st # "ACTIVE" THEN "raise" ELSE "next"

\* response.text for the request of one slide.
Narrative(slide_i) == <<"narrative", slide_i + 1>>

\* An entry of the history: a call on ai_model ("upload_file" with the handle
\* it returned, "wait_for_files_active" and "process_content" with the handles
\* passed), a state the readiness check saw for a handle (the state's name),
\* or the append of a result ("append").
Event(op, files, id) == [op |-> op, slide |-> i + 1, files |-> files, id |-> id]

Raise(e) == pc' = "raised" /\ error' = e

----------------------------------------------------------------------------
Init ==
  /\ variant \in Variants
  /\ prs \in Decks
  /\ combine_images \in BOOLEAN
  /\ add_labels \in BOOLEAN
  /\ pc = "for"
  /\ i = 0
  /\ idx = 0
  /\ heap = <<>>
  /\ images1 = <<>>
  /\ snapshot1 = 0
  /\ tmp = 0
  /\ id_text = <<>>
  /\ processed_imgs = <<>>
  /\ ai_files = <<>>
  /\ disk = {}
  /\ uploaded = 0
  /\ wi = 1
  /\ svc = "ACTIVE"
  /\ file = "ACTIVE"
  /\ result = <<>>
  /\ results = <<>>
  /\ output = [written |-> FALSE, blocks |-> <<>>]
  /\ error = "none"
  /\ calls = <<>>

----------------------------------------------------------------------------
\* The slide loop

\* for i in range(..): slide1 = prs.slides[i]; extract_slide_content(slide1)
Extract ==
  /\ pc = "for"
  /\ i < RangeStop(variant, prs)
  /\ i + 1 <= Len(prs)
  /\ heap' = ExtractedHeap(variant, i + 1, prs[i + 1])
  /\ images1' = [k \in 1..prs[i + 1] |-> k]
  /\ snapshot1' = IF variant = "powerpoint_analyzer" THEN prs[i + 1] + 1 ELSE 0
  /\ processed_imgs' = <<>>
  /\ ai_files' = <<>>
  /\ idx' = 0
  /\ pc' = IF prs[i + 1] > 0 THEN "img_copy" ELSE AfterImages(variant, FALSE)
  /\ UNCHANGED <<params, i, tmp, id_text, disk, uploaded, wi, svc, file, result,
                 results, output, error, calls>>

\* prs.slides[i] with i beyond the deck
SlideIndexError ==
  /\ pc = "for"
  /\ i < RangeStop(variant, prs)
  /\ i + 1 > Len(prs)
  /\ Raise("IndexError")
  /\ UNCHANGED <<params, i, idx, heap, images1, snapshot1, tmp, id_text,
                 processed_imgs, ai_files, disk, uploaded, wi, svc, file, result,
                 results, output, calls>>

\* the range is exhausted
LoopExit ==
  /\ pc = "for"
  /\ i >= RangeStop(variant, prs)
  /\ pc' = "write"
  /\ UNCHANGED <<params, i, idx, heap, images1, snapshot1, tmp, id_text,
                 processed_imgs, ai_files, disk, uploaded, wi, svc, file, result,
                 results, output, error, calls>>

----------------------------------------------------------------------------
\* The image block

\* id_text = f"IMG_.."; img.copy()
CopyImage ==
  /\ pc = "img_copy"
  /\ id_text' = IdText(i, idx)
  /\ LET c == ImageCopy(heap, images1[idx + 1])
     IN  heap' = c.heap /\ tmp' = c.ref
  /\ pc' = "img_label"
  /\ UNCHANGED <<params, i, idx, images1, snapshot1, processed_imgs, ai_files,
                 disk, uploaded, wi, svc, file, result, results, output, error,
                 calls>>

\* img_with_id = add_id_to_image(<copy>, id_text); append; save
LabelImage ==
  /\ pc = "img_label"
  /\ LET l == add_id_to_image(heap, tmp, id_text)
     IN  /\ heap' = l.heap
         /\ tmp' = l.ref
         /\ processed_imgs' = Append(processed_imgs, l.ref)
         /\ disk' = Save(disk, ImgPath(i, idx), l.heap[l.ref])
  /\ pc' = "img_upload"
  /\ UNCHANGED <<params, i, idx, images1, snapshot1, id_text, ai_files, uploaded,
                 wi, svc, file, result, results, output, error, calls>>

\* ai_file = ai_model.upload_file(img_path); ai_files.append(ai_file)
UploadImage ==
  /\ pc = "img_upload"
  /\ LET h == Handle(uploaded + 1, FileAt(disk, ImgPath(i, idx)).content)
     IN  /\ ai_files' = Append(ai_files, h)
         /\ calls' = Append(calls, Event("upload_file", <<h>>, id_text))
  /\ uploaded' = uploaded + 1
  /\ pc' = "img_remove"
  /\ UNCHANGED <<params, i, idx, heap, images1, snapshot1, tmp, id_text,
                 processed_imgs, disk, wi, svc, file, result, results, output,
                 error>>

\* ai_model.upload_file raises
UploadImageFails ==
  /\ pc = "img_upload"
  /\ calls' = Append(calls, Event("upload_file", <<>>, id_text))
  /\ Raise("UploadError")
  /\ UNCHANGED <<params, i, idx, heap, images1, snapshot1, tmp, id_text,
                 processed_imgs, ai_files, disk, uploaded, wi, svc, file, result,
                 results, output>>

\* os.remove(img_path); next image or leave the block
RemoveImage ==
  /\ pc = "img_remove"
  /\ disk' = Remove(disk, ImgPath(i, idx))
  /\ idx' = idx + 1
  /\ pc' = IF idx + 1 < Len(images1) THEN "img_copy" ELSE AfterImages(variant, TRUE)
  /\ UNCHANGED <<params, i, heap, images1, snapshot1, tmp, id_text,
                 processed_imgs, ai_files, uploaded, wi, svc, file, result,
                 results, output, error, calls>>

----------------------------------------------------------------------------
\* The snapshot block (powerpoint_analyzer only)

\* snapshot_id = f"snapshot_.."; snapshot.copy()
CopySnapshot ==
  /\ pc = "snap_copy"
  /\ id_text' = SnapshotId(i, 0)
  /\ LET c == ImageCopy(heap, snapshot1)
     IN  heap' = c.heap /\ tmp' = c.ref
  /\ pc' = "snap_label"
  /\ UNCHANGED <<params, i, idx, images1, snapshot1, processed_imgs, ai_files,
                 disk, uploaded, wi, svc, file, result, results, output, error,
                 calls>>

\* snapshot_with_id = add_id_to_image(<copy>, snapshot_id); save
LabelSnapshot ==
  /\ pc = "snap_label"
  /\ LET l == add_id_to_image(heap, tmp, id_text)
     IN  /\ heap' = l.heap
         /\ tmp' = l.ref
         /\ disk' = Save(disk, SnapshotPath(id_text), l.heap[l.ref])
  /\ pc' = "snap_upload"
  /\ UNCHANGED <<params, i, idx, images1, snapshot1, id_text, processed_imgs,
                 ai_files, uploaded, wi, svc, file, result, results, output,
                 error, calls>>

\* ai_file = ai_model.upload_file(snapshot_path); ai_files.append(ai_file)
UploadSnapshot ==
  /\ pc = "snap_upload"
  /\ LET h == Handle(uploaded + 1, FileAt(disk, SnapshotPath(id_text)).content)
     IN  /\ ai_files' = Append(ai_files, h)
         /\ calls' = Append(calls, Event("upload_file", <<h>>, id_text))
  /\ uploaded' = uploaded + 1
  /\ pc' = "snap_remove"
  /\ UNCHANGED <<params, i, idx, heap, images1, snapshot1, tmp, id_text,
                 processed_imgs, disk, wi, svc, file, result, results, output,
                 error>>

UploadSnapshotFails ==
  /\ pc = "snap_upload"
  /\ calls' = Append(calls, Event("upload_file", <<>>, id_text))
  /\ Raise("UploadError")
  /\ UNCHANGED <<params, i, idx, heap, images1, snapshot1, tmp, id_text,
                 processed_imgs, ai_files, disk, uploaded, wi, svc, file, result,
                 results, output>>

\* os.remove(snapshot_path); if combine_images: ...
RemoveSnapshot ==
  /\ pc = "snap_remove"
  /\ disk' = Remove(disk, SnapshotPath(id_text))
  /\ pc' = IF combine_images THEN "combine" ELSE "wait_call"
  /\ UNCHANGED <<params, i, idx, heap, images1, snapshot1, tmp, id_text,
                 processed_imgs, ai_files, uploaded, wi, svc, file, result,
                 results, output, error, calls>>

----------------------------------------------------------------------------
\* The combine block

\* widths, heights = zip(*(..)) over no image: nothing to unpack
CombineEmpty ==
  /\ pc = "combine"
  /\ processed_imgs = <<>>
  /\ Raise("ValueError")
  /\ UNCHANGED <<params, i, idx, heap, images1, snapshot1, tmp, id_text,
                 processed_imgs, ai_files, disk, uploaded, wi, svc, file, result,
                 results, output, calls>>

\* combined_img = Image.new(..); paste each; combined_img.save(combined_img_path)
CombineBuild ==
  /\ pc = "combine"
  /\ processed_imgs # <<>>
  /\ LET c == Composite(heap, processed_imgs, i + 1)
     IN  /\ heap' = Append(heap, c)
         /\ tmp' = Len(heap) + 1
         /\ disk' = Save(disk, CombinedPath(i), c)
  /\ id_text' = <<>>
  /\ pc' = "comb_upload"
  /\ UNCHANGED <<params, i, idx, images1, snapshot1, processed_imgs, ai_files,
                 uploaded, wi, svc, file, result, results, output, error, calls>>

\* ai_files = [ai_model.upload_file(combined_img_path)] (+ ai_files[-2:])
UploadCombined ==
  /\ pc = "comb_upload"
  /\ LET h == Handle(uploaded + 1, FileAt(disk, CombinedPath(i)).content)
     IN  /\ ai_files' = CombinedFiles(variant, h, ai_files)
         /\ calls' = Append(calls, Event("upload_file", <<h>>, id_text))
  /\ uploaded' = uploaded + 1
  /\ pc' = "comb_remove"
  /\ UNCHANGED <<params, i, idx, heap, images1, snapshot1, tmp, id_text,
                 processed_imgs, disk, wi, svc, file, result, results, output,
                 error>>

UploadCombinedFails ==
  /\ pc = "comb_upload"
  /\ calls' = Append(calls, Event("upload_file", <<>>, id_text))
  /\ Raise("UploadError")
  /\ UNCHANGED <<params, i, idx, heap, images1, snapshot1, tmp, id_text,
                 processed_imgs, ai_files, disk, uploaded, wi, svc, file, result,
                 results, output>>

\* os.remove(combined_img_path)
RemoveCombined ==
  /\ pc = "comb_remove"
  /\ disk' = Remove(disk, CombinedPath(i))
  /\ pc' = "wait_call"
  /\ UNCHANGED <<params, i, idx, heap, images1, snapshot1, tmp, id_text,
                 processed_imgs, ai_files, uploaded, wi, svc, file, result,
                 results, output, error, calls>>

----------------------------------------------------------------------------
\* ai_model.wait_for_files_active(ai_files)

WaitCall ==
  /\ pc = "wait_call"
  /\ calls' = Append(calls, Event("wait_for_files_active", ai_files, <<>>))
  /\ wi' = 1
  /\ pc' = "wait_for"
  /\ UNCHANGED <<params, i, idx, heap, images1, snapshot1, tmp, id_text,
                 processed_imgs, ai_files, disk, uploaded, svc, file, result,
                 results, output, error>>

\* for name in ..: file = genai.get_file(name)
\* The service's state of that file is whatever it has become since the upload.
WaitGetFile ==
  /\ pc = "wait_for"
  /\ ~WaitDone(wi, ai_files)
  /\ svc' \in FileStates
  /\ file' = svc'
  /\ pc' = "wait_while"
  /\ UNCHANGED <<params, i, idx, heap, images1, snapshot1, tmp, id_text,
                 processed_imgs, ai_files, disk, uploaded, wi, result, results,
                 output, error, calls>>

\* while file.state.name == "PROCESSING": print(".")
WaitProcessing ==
  /\ pc = "wait_while"
  /\ file = "PROCESSING"
  /\ pc' = "wait_sleep"
  /\ UNCHANGED <<params, i, idx, heap, images1, snapshot1, tmp, id_text,
                 processed_imgs, ai_files, disk, uploaded, wi, svc, file, result,
                 results, output, error, calls>>

\* time.sleep(10); file = genai.get_file(name)
WaitSleep ==
  /\ pc = "wait_sleep"
  /\ file' = svc
  /\ pc' = "wait_while"
  /\ UNCHANGED <<params, i, idx, heap, images1, snapshot1, tmp, id_text,
                 processed_imgs, ai_files, disk, uploaded, wi, svc, result,
                 results, output, error, calls>>

\* if file.state.name != "ACTIVE": raise Exception(..)
WaitFileFailed ==
  /\ pc = "wait_while"
  /\ file # "PROCESSING"
  /\ WaitOutcome(file) = "raise"
  /\ calls' = Append(calls, Event(file, <<ai_files[wi]>>, <<>>))
  /\ Raise("FileFailed")
  /\ UNCHANGED <<params, i, idx, heap, images1, snapshot1, tmp, id_text,
                 processed_imgs, ai_files, disk, uploaded, wi, svc, file, result,
                 results, output>>

\* the file passed the check: on to the next name
WaitFileChecked ==
  /\ pc = "wait_while"
  /\ file # "PROCESSING"
  /\ WaitOutcome(file) = "next"
  /\ calls' = Append(calls, Event(file, <<ai_files[wi]>>, <<>>))
  /\ wi' = wi + 1
  /\ pc' = "wait_for"
  /\ UNCHANGED <<params, i, idx, heap, images1, snapshot1, tmp, id_text,
                 processed_imgs, ai_files, disk, uploaded, svc, file, result,
                 results, output, error>>

\* print("...all files ready"): wait_for_files_active returns
WaitReturn ==
  /\ pc = "wait_for"
  /\ WaitDone(wi, ai_files)
  /\ pc' = "process"
  /\ UNCHANGED <<params, i, idx, heap, images1, snapshot1, tmp, id_text,
                 processed_imgs, ai_files, disk, uploaded, wi, svc, file, result,
                 results, output, error, calls>>

\* The service finishes processing the file being waited for (environment).
ServiceProgress ==
  /\ pc \in {"wait_while", "wait_sleep"}
  /\ svc = "PROCESSING"
  /\ svc' \in {"ACTIVE", "FAILED"}
  /\ UNCHANGED <<params, pc, i, idx, heap, images1, snapshot1, tmp, id_text,
                 processed_imgs, ai_files, disk, uploaded, wi, file, result,
                 results, output, error, calls>>

----------------------------------------------------------------------------
\* Submit, collect, write

\* result = ai_model.process_content(ai_files, analysis_instructions)
ProcessContent ==
  /\ pc = "process"
  /\ result' = Narrative(i)
  /\ calls' = Append(calls, Event("process_content", ai_files, <<>>))
  /\ pc' = "append"
  /\ UNCHANGED <<params, i, idx, heap, images1, snapshot1, tmp, id_text,
                 processed_imgs, ai_files, disk, uploaded, wi, svc, file, results,
                 output, error>>

\* ai_model.process_content raises
ProcessContentFails ==
  /\ pc = "process"
  /\ calls' = Append(calls, Event("process_content", ai_files, <<>>))
  /\ Raise("ServiceError")
  /\ UNCHANGED <<params, i, idx, heap, images1, snapshot1, tmp, id_text,
                 processed_imgs, ai_files, disk, uploaded, wi, svc, file, result,
                 results, output>>

\* results.append(result); next i
AppendResult ==
  /\ pc = "append"
  /\ results' = Append(results, result)
  /\ calls' = Append(calls, Event("append", <<>>, <<>>))
  /\ i' = i + 1
  /\ pc' = "for"
  /\ UNCHANGED <<params, idx, heap, images1, snapshot1, tmp, id_text,
                 processed_imgs, ai_files, disk, uploaded, wi, svc, file, result,
                 output, error>>

\* with open(output_file, 'w') as f: for result in results: f.write(result + "\n\n")
WriteOutput ==
  /\ pc = "write"
  /\ output' = [written |-> TRUE, blocks |-> results]
  /\ pc' = "done"
  /\ UNCHANGED <<params, i, idx, heap, images1, snapshot1, tmp, id_text,
                 processed_imgs, ai_files, disk, uploaded, wi, svc, file, result,
                 results, error, calls>>

----------------------------------------------------------------------------
Program ==
  \/ Extract \/ SlideIndexError \/ LoopExit
  \/ CopyImage \/ LabelImage \/ UploadImage \/ UploadImageFails \/ RemoveImage
  \/ CopySnapshot \/ LabelSnapshot \/ UploadSnapshot \/ UploadSnapshotFails
  \/ RemoveSnapshot
  \/ CombineEmpty \/ CombineBuild \/ UploadCombined \/ UploadCombinedFails
  \/ RemoveCombined
  \/ WaitCall \/ WaitGetFile \/ WaitProcessing \/ WaitSleep \/ WaitFileFailed
  \/ WaitFileChecked \/ WaitReturn
  \/ ProcessContent \/ ProcessContentFails \/ AppendResult \/ WriteOutput

Next == Program \/ ServiceProgress

Spec == Init /\ [][Next]_vars

\* The interpreter keeps running the program; nothing is assumed of the service.
FairSpec == Spec /\ WF_vars(Program)

----------------------------------------------------------------------------
\* Reading the history

Range(f) == {f[k] : k \in DOMAIN f}

At(op, s) == {p \in DOMAIN calls : calls[p].op = op /\ calls[p].slide = s}

\* The upload_file calls of slide s that returned a handle.
Staged(s) == {p \in At("upload_file", s) : calls[p].files # <<>>}

StagedKind(s, kind) == {p \in Staged(s) : calls[p].files[1].unit.kind = kind}

\* The order of the steps of one slide.
Phase(op) ==
  CASE op = "upload_file" -> 1
    [] op = "wait_for_files_active" -> 2
    [] op \in FileStates -> 3
    [] op = "process_content" -> 4
    [] op = "append" -> 5

\* upload_file calls for a slide of n pictures when combine_images is false:
\* one per picture, and one for the snapshot where there is one.
SeparateUploads(v, n) == n + (IF v = "powerpoint_analyzer" THEN 1 ELSE 0)

\* SeparateUploads is what the run does: checked along with the claims.
SeparateUploadsAgree ==
  \A p \in DOMAIN calls :
    (calls[p].op = "wait_for_files_active" /\ ~combine_images)
      => Cardinality(At("upload_file", calls[p].slide))
           = SeparateUploads(variant, prs[calls[p].slide])

----------------------------------------------------------------------------
\* C1 (powerpoint_analyzer, the version with a snapshot): a slide without
\* pictures, with combine_images true, builds no
\* composite and raises nothing, and wait_for_files_active and
\* process_content get exactly the one snapshot handle.
C1_ZeroPicturesSendSnapshotOnly ==
  (variant = "powerpoint_analyzer" /\ combine_images) =>
    /\ error # "ValueError"
    /\ \A p \in DOMAIN calls :
         prs[calls[p].slide] = 0 =>
           /\ (calls[p].op = "upload_file" /\ calls[p].files # <<>>)
                => calls[p].files[1].unit.kind # "composite"
           /\ calls[p].op \in {"wait_for_files_active", "process_content"}
                => /\ Len(calls[p].files) = 1
                   /\ calls[p].files[1].unit.kind = "snapshot"
                   /\ calls[p].files[1].unit.slide = calls[p].slide

\* C2 (powerpoint_analyzer): a slide with N >= 1 pictures, with combine_images
\* true, submits exactly two handles: the composite of its N labeled images,
\* then its snapshot; no handle of a single image.
C2_CombinedSubmitsCompositeThenSnapshot ==
  (variant = "powerpoint_analyzer" /\ combine_images) =>
    \A p \in DOMAIN calls :
      (calls[p].op = "process_content" /\ prs[calls[p].slide] >= 1) =>
        LET f == calls[p].files
        IN  /\ Len(f) = 2
            /\ f[1].unit.kind = "composite"
            /\ Len(f[1].unit.parts) = prs[calls[p].slide]
            /\ f[2].unit.kind = "snapshot"
            /\ f[2].unit.slide = calls[p].slide
            /\ \A k \in DOMAIN f : f[k].unit.kind # "image"

\* C3: a run in which nothing failed has processed every slide 1..K of the
\* deck once, in order: results and the output file hold K blocks, block j
\* the narrative of slide j.
C3_EverySlideOnceInOrder ==
  pc = "done" =>
    /\ Len(results) = Len(prs)
    /\ \A j \in DOMAIN results : results[j] = Narrative(j - 1)
    /\ \A s \in DOMAIN prs : Cardinality(At("process_content", s)) = 1
    /\ output.written /\ output.blocks = results

\* C4: when analyze_powerpoint has returned or raised, no temporary file
\* of the run is left on disk.
C4_NoTemporaryFileLeft ==
  pc \in {"done", "raised"} => disk = {}

\* C5: once the readiness check has seen a failed state for a handle of
\* slide s, process_content is not called for slide s, no result of slide s
\* is appended or written, and the exception has left analyze_powerpoint.
C5_FailedHandleAborts ==
  \A p \in DOMAIN calls :
    (calls[p].op \in FileStates /\ calls[p].op # "ACTIVE") =>
      /\ At("process_content", calls[p].slide) = {}
      /\ At("append", calls[p].slide) = {}
      /\ Len(results) < calls[p].slide
      /\ ~output.written
      /\ pc = "raised" /\ error = "FileFailed"

\* The readiness check has failed a handle of the second slide.
C5_Witness ==
  /\ error = "FileFailed"
  /\ Len(results) = 1
  /\ calls[Len(calls)].op = "FAILED"
  /\ calls[Len(calls)].slide = 2

\* C6: identifiers follow the position alone and are unique in a run: the
\* k-th picture of slide s is staged as IMG_s_k, the snapshot as snapshot_s,
\* the label drawn (add_labels) is that identifier, a slide that reaches the
\* readiness check has staged IMG_s_1..IMG_s_N, and no two staged units of
\* the run have the same identifier.
C6_IdentifiersByPosition ==
  /\ \A p \in DOMAIN calls :
       (calls[p].op = "upload_file" /\ calls[p].files # <<>>) =>
         LET u == calls[p].files[1].unit
             s == calls[p].slide
         IN  /\ u.kind = "image" =>
                  /\ calls[p].id = <<"IMG", s, u.ord>>
                  /\ u.slide = s
                  /\ u.ord = Cardinality({q \in StagedKind(s, "image") : q <= p})
                  /\ add_labels => u.tags = <<calls[p].id>>
             /\ u.kind = "snapshot" =>
                  /\ calls[p].id = <<"snapshot", s>>
                  /\ u.slide = s
                  /\ add_labels => u.tags = <<calls[p].id>>
  /\ \A p \in DOMAIN calls :
       calls[p].op = "wait_for_files_active" =>
         {calls[q].id : q \in StagedKind(calls[p].slide, "image")}
           = {<<"IMG", calls[p].slide, k>> : k \in 1..prs[calls[p].slide]}
  /\ \A p, q \in DOMAIN calls :
       ( /\ p # q
         /\ calls[p].op = "upload_file" /\ calls[p].files # <<>>
         /\ calls[q].op = "upload_file" /\ calls[q].files # <<>>
         /\ calls[p].files[1].unit.kind # "composite"
         /\ calls[q].files[1].unit.kind # "composite" )
       => calls[p].id # calls[q].id

\* The second slide has staged its second picture and its snapshot, labeled.
C6_Witness ==
  /\ add_labels
  /\ \E p, q \in Staged(2) :
       /\ calls[p].id = <<"IMG", 2, 2>>
       /\ calls[q].id = <<"snapshot", 2>>
       /\ calls[q].files[1].unit.tags = <<calls[q].id>>

\* The extracted images and the extracted snapshot of the current slide.
Extracted == Range(images1) \cup (IF snapshot1 = 0 THEN {} ELSE {snapshot1})

\* C7 as claimed: add_id_to_image with labels enabled leaves the object it
\* was given unchanged and puts the tag on another object, which it returns;
\* with labels disabled it returns the object it was given, unchanged.
C7_LabelLeavesItsArgument ==
  [][(pc \in {"img_label", "snap_label"}) =>
       (IF add_labels
          THEN /\ heap'[tmp] = heap[tmp]
               /\ tmp' # tmp
               /\ heap'[tmp'].tags = Append(heap[tmp].tags, id_text)
          ELSE tmp' = tmp /\ heap'[tmp] = heap[tmp])]_vars

\* C7 as amended: add_id_to_image is always given a private copy (img.copy(),
\* snapshot.copy()), never an extracted unit; with labels enabled it draws
\* the tag on that copy in place and returns the same object; the extracted
\* units are unchanged; with labels disabled it returns the copy unchanged.
C7_LabelLeavesExtractedUnits ==
  [][(pc \in {"img_label", "snap_label"}) =>
       /\ tmp \notin Extracted
       /\ \A r \in Extracted : heap'[r] = heap[r]
       /\ tmp' = tmp
       /\ heap'[tmp] = (IF add_labels
                          THEN [heap[tmp] EXCEPT !.tags = Append(@, id_text)]
                          ELSE heap[tmp])]_vars

\* An image has just been labeled: the tag is on the copy, not on the
\* extracted image.
C7_Witness ==
  /\ pc = "img_upload"
  /\ add_labels
  /\ heap[tmp].tags = <<id_text>>
  /\ heap[images1[idx + 1]].tags = <<>>

\* C8: per slide the steps are upload_file*, wait_for_files_active, the
\* readiness checks, process_content, append, each of the last three at most
\* once and none without the one before; process_content gets the handles
\* wait_for_files_active got, each seen ACTIVE in between; and slide s + 1
\* has no step before the result of slide s is appended.
C8_CallsInOrder ==
  /\ \A p, q \in DOMAIN calls :
       p < q =>
         /\ calls[p].slide <= calls[q].slide
         /\ calls[p].slide < calls[q].slide => calls[p].op = "append" \/
              \E a \in At("append", calls[p].slide) : p < a /\ a < q
         /\ calls[p].slide = calls[q].slide =>
              /\ Phase(calls[p].op) <= Phase(calls[q].op)
              /\ Phase(calls[p].op) \in {2, 4, 5}
                   => Phase(calls[p].op) < Phase(calls[q].op)
  /\ \A p \in DOMAIN calls :
       calls[p].op = "process_content" =>
         \E w \in At("wait_for_files_active", calls[p].slide) :
           /\ w < p
           /\ calls[w].files = calls[p].files
           /\ \A k \in DOMAIN calls[p].files :
                \E c \in At("ACTIVE", calls[p].slide) :
                  w < c /\ c < p /\ calls[c].files = <<calls[p].files[k]>>
  /\ \A p \in DOMAIN calls :
       calls[p].op = "append" =>
         /\ At("process_content", calls[p].slide) # {}
         /\ Len(results) >= calls[p].slide
  /\ Len(results) = i

\* Two slides went through, the second with at least two handles.
C8_Witness ==
  /\ Len(results) = 2
  /\ \E p \in At("process_content", 2) : Len(calls[p].files) >= 2

\* C9: a call of wait_for_files_active ends, whatever the service does: it
\* returns or it raises.
C9_WaitTerminates ==
  (pc = "wait_call") ~> (pc \in {"process", "raised"})

\* C10: for a slide with N >= 2 pictures, combine_images true makes fewer
\* upload_file calls than combine_images false does, and every handle staged
\* for a slide is among the handles submitted for it.
C10_CombiningReducesUploads ==
  \A p \in DOMAIN calls :
    (calls[p].op = "process_content" /\ prs[calls[p].slide] >= 2) =>
      /\ combine_images =>
           Cardinality(At("upload_file", calls[p].slide))
             < SeparateUploads(variant, prs[calls[p].slide])
      /\ \A q \in Staged(calls[p].slide) :
           calls[q].files[1] \in Range(calls[p].files)

====
